---- MODULE Spec2Model ----
(***************************************************************************)
(* Model of src/index.js: the Playwright benchmark driver (runBenchmark)   *)
(* and the aggregation pipeline it exports (avg, calculateMetricsData,     *)
(* calculateCumulativeStats, calculateDeltas, generateHtml).               *)
(*                                                                         *)
(* Two specifications share the module:                                    *)
(*   Spec        runBenchmark, one action per awaited call or file write   *)
(*   HarnessSpec a caller of the exported functions (module.exports) that  *)
(*               builds a result tree and applies one function to it       *)
(*                                                                         *)
(* JavaScript numbers are modelled as exact rationals.  Samples are        *)
(* integer-valued milliseconds, for which IEEE-754 sums are exact; the     *)
(* rounding of fractional timestamps is outside the model.                 *)
(***************************************************************************)
EXTENDS Integers, Sequences, FiniteSets, TLC

VARIABLES
    URLS,        \* configuration: the list of page addresses (index.js:15)
    entries,     \* environment: the timing entries a loaded page exposes
    results,     \* runBenchmark's result tree (index.js:32)
    pc,          \* runBenchmark's position
    browserIdx,  \* position of the loop over Object.entries(browsers)
    jsIdx,       \* position of the loop over [true, false]
    iter,        \* index.js:53
    urlIdx,      \* position of the loop over URLS (index.js:66)
    browser,     \* number of browser instances launched and not closed
    launchTime,  \* index.js:61
    files,       \* files written so far, in order
    exitCode,    \* process exit status, -1 while none
    calls,       \* the Playwright and fs calls that have returned, in order
    data,        \* HarnessSpec: the tree handed to an exported function
    edits,       \* HarnessSpec: number of changes made to the tree
    ret          \* HarnessSpec: the last call and its completion

vars == <<URLS, entries, results, pc, browserIdx, jsIdx, iter, urlIdx,
          browser, launchTime, files, exitCode, calls, data, edits, ret>>

runVars == <<entries, results, pc, browserIdx, jsIdx, iter, urlIdx,
             browser, launchTime, files, exitCode, calls>>

harnessVars == <<data, edits, ret>>

----------------------------------------------------------------------------
(* Bounds of the model *)

\* longest configured URL list
MaxUrls == 2

\* most changes (samples pushed, keys removed) the harness makes to a tree
MaxEdits == 3

\* page addresses a configuration may list, as sequences of characters:
\* "https://a/" and "http://b/x/"
Urls ==
    {<<"h", "t", "t", "p", "s", ":", "/", "/", "a", "/">>,
     <<"h", "t", "t", "p", ":", "/", "/", "b", "/", "x", "/">>}

\* millisecond readings a sample field may hold
TimingValues == {0, 2}

\* launch durations (Date.now() differences) the environment may produce
LaunchTimes == {3}

\* start times of the paint and navigation entries the environment may produce
PageTimes == {2}

----------------------------------------------------------------------------
(* Program constants *)

ITERATIONS == 5

OUTPUT_JSON == "performance_results.json"

OUTPUT_HTML == "results_chart.html"

BrowserNames == <<"Chrome", "Firefox">>

JsStates == <<TRUE, FALSE>>

JsLabel(jsOn) == IF jsOn THEN "JS_on" ELSE "JS_off"

CacheStates == {"cold", "warm"}

TimingFields == {"fcp", "dom_interactive", "dom_content_loaded", "load"}

----------------------------------------------------------------------------
(* JavaScript values *)

null == [type |-> "null"]

undefined == [type |-> "undefined"]

\* a finite number, kept as a fraction in lowest terms with den > 0
Num(n, d) == [type |-> "number", num |-> n, den |-> d]

Int2Num(n) == Num(n, 1)

IsNum(v) == v.type = "number"

Abs(n) == IF n < 0 THEN -n ELSE n

RECURSIVE Gcd(_, _)
Gcd(a, b) == IF b = 0 THEN a ELSE Gcd(b, a % b)

Norm(n, d) ==
    LET g == Gcd(Abs(n), d)
    IN  IF n = 0 THEN Num(0, 1) ELSE Num(n \div g, d \div g)

\* a + b on numbers
NumAdd(a, b) == Norm(a.num * b.den + b.num * a.den, a.den * b.den)

\* a / n for a positive array length n
NumDiv(a, n) == Norm(a.num, a.den * n)

NumNeg(a) == Num(-a.num, a.den)

NumLess(a, b) == a.num * b.den < b.num * a.den

\* ToNumber as the binary - operator applies it: null becomes +0
ToNumber(v) == IF v = null THEN Num(0, 1) ELSE v

\* a - b, both operands coerced with ToNumber
Minus(a, b) == NumAdd(ToNumber(a), NumNeg(ToNumber(b)))

\* v != null (loose inequality: false for null and for undefined)
NotNullish(v) == v # null /\ v # undefined

\* v ?? null
OrNull(v) == IF NotNullish(v) THEN v ELSE null

\* a completed call: a returned value or a thrown error
Return(v) == [threw |-> FALSE, value |-> v]

Throw(name) == [threw |-> TRUE, error |-> name]

----------------------------------------------------------------------------
(* Plain objects: own string keys in insertion order, as Object.entries     *)
(* lists them                                                               *)

Entry(k, v) == [k |-> k, v |-> v]

Has(o, k) == \E i \in 1..Len(o) : o[i].k = k

IndexOf(o, k) == CHOOSE i \in 1..Len(o) : o[i].k = k

\* o[k] for a key the object has
Get(o, k) == o[IndexOf(o, k)].v

\* o[k] = v: an existing key keeps its position
Put(o, k, v) ==
    IF Has(o, k)
    THEN [o EXCEPT ![IndexOf(o, k)] = Entry(k, v)]
    ELSE Append(o, Entry(k, v))

\* delete o[k]
Delete(o, k) == SelectSeq(o, LAMBDA e : e.k # k)

RECURSIVE ReduceFrom(_, _, _)
\* the reduction from position i on, a being the accumulator so far
ReduceFrom(a, arr, i) ==
    IF IsNum(a) /\ i <= Len(arr)
    THEN ReduceFrom(NumAdd(a, arr[i]), arr, i + 1)
    ELSE a

\* arr.reduce((a, b) => a + b, 0)
SeqSum(arr) == ReduceFrom(Num(0, 1), arr, 1)

AvgEmptyIsZero(arr) ==
    IF Len(arr) # 0 THEN NumDiv(SeqSum(arr), Len(arr)) ELSE Num(0, 1)

\* const avg = (arr) => (arr.length ? sum / arr.length : null)
avg(arr) == IF Len(arr) # 0 THEN NumDiv(SeqSum(arr), Len(arr)) ELSE null

----------------------------------------------------------------------------
(* The result tree: browser -> JS label -> url -> {cold, warm} -> samples   *)

\* { cold: [], warm: [] }
EmptyBuckets == <<Entry("cold", <<>>), Entry("warm", <<>>)>>

RECURSIVE PreSeed(_, _)
\* for (const url of URLS) sites[url] = { cold: [], warm: [] }
PreSeed(sites, urls) ==
    IF urls = <<>> THEN sites
    ELSE PreSeed(Put(sites, Head(urls), EmptyBuckets), Tail(urls))

\* tree[b][j][u][c].push(sample)
PushSample(tree, b, j, u, c, sample) ==
    LET jsBuckets    == Get(tree, b)
        sites        == Get(jsBuckets, j)
        cacheBuckets == Get(sites, u)
        pushed       == Put(cacheBuckets, c, Append(Get(cacheBuckets, c), sample))
    IN  Put(tree, b, Put(jsBuckets, j, Put(sites, u, pushed)))

\* every (browser, JS label, url, buckets) of a tree, in Object.entries order
RECURSIVE SiteEntries(_, _, _)
SiteEntries(b, j, sites) ==
    IF sites = <<>> THEN <<>>
    ELSE <<[browser |-> b, jsLabel |-> j, url |-> Head(sites).k,
            cacheBuckets |-> Head(sites).v]>>
         \o SiteEntries(b, j, Tail(sites))

RECURSIVE JsEntries(_, _)
JsEntries(b, jsBuckets) ==
    IF jsBuckets = <<>> THEN <<>>
    ELSE SiteEntries(b, Head(jsBuckets).k, Head(jsBuckets).v)
         \o JsEntries(b, Tail(jsBuckets))

RECURSIVE Scenarios(_)
Scenarios(tree) ==
    IF tree = <<>> THEN <<>>
    ELSE JsEntries(Head(tree).k, Head(tree).v) \o Scenarios(Tail(tree))

----------------------------------------------------------------------------
(* Strings as sequences of characters                                       *)

RECURSIVE ReplaceFirstFrom(_, _, _)
ReplaceFirstFrom(s, pat, i) ==
    IF i + Len(pat) - 1 > Len(s) THEN s
    ELSE IF SubSeq(s, i, i + Len(pat) - 1) = pat
         THEN SubSeq(s, 1, i - 1) \o SubSeq(s, i + Len(pat), Len(s))
         ELSE ReplaceFirstFrom(s, pat, i + 1)

\* s.replace(pat, ''): the first occurrence of a string pattern is removed
ReplaceFirst(s, pat) == ReplaceFirstFrom(s, pat, 1)

\* url.replace('https://', '').replace('/', '')
DisplayUrl(u) ==
    ReplaceFirst(ReplaceFirst(u, <<"h", "t", "t", "p", "s", ":", "/", "/">>), <<"/">>)

\* `${browser} ${jsLabel} ${...}`: the three parts the spaces separate
Label(b, j, u) == <<b, j, DisplayUrl(u)>>

----------------------------------------------------------------------------
(* calculateMetricsData (index.js:389-424)                                  *)

\* r[f]: undefined for a property the record lacks
Prop(r, f) == IF f \in DOMAIN r THEN r[f] ELSE undefined

\* samples.map(r => r[f])
Pluck(samples, f) == [i \in 1..Len(samples) |-> Prop(samples[i], f)]

NonNullKeepAll(samples, f) ==
    [i \in 1..Len(samples) |->
        IF NotNullish(Prop(samples[i], f)) THEN Prop(samples[i], f) ELSE Num(0, 1)]

RECURSIVE TakeUntilNullish(_)
TakeUntilNullish(vals) ==
    IF vals = <<>> \/ ~NotNullish(Head(vals)) THEN <<>>
    ELSE <<Head(vals)>> \o TakeUntilNullish(Tail(vals))

NonNullPrefix(samples, f) == TakeUntilNullish(Pluck(samples, f))

\* samples.map(r => r[f]).filter(v => v != null)
NonNull(samples, f) == SelectSeq(Pluck(samples, f), NotNullish)

\* reading .cold or .warm of a bucket that lacks it gives undefined, and
\* calling .map on undefined throws
BucketsComplete(cacheBuckets) == Has(cacheBuckets, "cold") /\ Has(cacheBuckets, "warm")

ColdAverages(s) ==
    LET cold == Get(s.cacheBuckets, "cold")
    IN  [label              |-> Label(s.browser, s.jsLabel, s.url),
         browser_start_time |-> avg(NonNull(cold, "browser_start_time")),
         fcp                |-> avg(NonNull(cold, "fcp")),
         dom_interactive    |-> avg(NonNull(cold, "dom_interactive")),
         dom_content_loaded |-> avg(NonNull(cold, "dom_content_loaded")),
         load               |-> avg(NonNull(cold, "load"))]

WarmAverages(s) ==
    LET warm == Get(s.cacheBuckets, "warm")
    IN  [label              |-> Label(s.browser, s.jsLabel, s.url),
         browser_start_time |-> null,
         fcp                |-> avg(NonNull(warm, "fcp")),
         dom_interactive    |-> avg(NonNull(warm, "dom_interactive")),
         dom_content_loaded |-> avg(NonNull(warm, "dom_content_loaded")),
         load               |-> avg(NonNull(warm, "load"))]

calculateMetricsData(tree) ==
    LET sc == Scenarios(tree)
    IN  IF \E i \in 1..Len(sc) : ~BucketsComplete(sc[i].cacheBuckets)
        THEN Throw("TypeError")
        ELSE Return([cold |-> [i \in 1..Len(sc) |-> ColdAverages(sc[i])],
                     warm |-> [i \in 1..Len(sc) |-> WarmAverages(sc[i])]])

----------------------------------------------------------------------------
(* calculateCumulativeStats (index.js:427-488)                              *)

RECURSIVE Flatten(_)
\* the concatenation of a sequence of arrays: acc.push(...xs) for each xs
Flatten(arrs) ==
    IF arrs = <<>> THEN <<>> ELSE Head(arrs) \o Flatten(Tail(arrs))

ColdVals(s, f) == NonNull(Get(s.cacheBuckets, "cold"), f)

WarmVals(s, f) == NonNull(Get(s.cacheBuckets, "warm"), f)

\* allFcps / allLoads
AllVals(sc, f) == Flatten([i \in 1..Len(sc) |-> ColdVals(sc[i], f) \o WarmVals(sc[i], f)])

\* jsOnFcps / jsOnLoads
JsOnVals(sc, f) ==
    Flatten([i \in 1..Len(sc) |->
        IF sc[i].jsLabel = "JS_on"
        THEN ColdVals(sc[i], f) \o WarmVals(sc[i], f) ELSE <<>>])

\* jsOffFcps / jsOffLoads: the else branch takes every other label
JsOffVals(sc, f) ==
    Flatten([i \in 1..Len(sc) |->
        IF sc[i].jsLabel = "JS_on"
        THEN <<>> ELSE ColdVals(sc[i], f) \o WarmVals(sc[i], f)])

\* coldFcps / coldLoads
ColdPool(sc, f) == Flatten([i \in 1..Len(sc) |-> ColdVals(sc[i], f)])

\* warmFcps / warmLoads
WarmPool(sc, f) == Flatten([i \in 1..Len(sc) |-> WarmVals(sc[i], f)])

\* the mean of the per-scenario means of a pool, not of the pooled samples
MeanOfLeafMeans(sc, f) ==
    LET ms == SelectSeq([i \in 1..Len(sc) |-> avg(ColdVals(sc[i], f))], NotNullish)
    IN  avg(ms)

BrowserStatsColdOfMeans(sc) ==
    [overall |-> [fcp |-> avg(AllVals(sc, "fcp")),   load |-> avg(AllVals(sc, "load"))],
     jsOn    |-> [fcp |-> avg(JsOnVals(sc, "fcp")),  load |-> avg(JsOnVals(sc, "load"))],
     jsOff   |-> [fcp |-> avg(JsOffVals(sc, "fcp")), load |-> avg(JsOffVals(sc, "load"))],
     cold    |-> [fcp |-> MeanOfLeafMeans(sc, "fcp"), load |-> MeanOfLeafMeans(sc, "load")],
     warm    |-> [fcp |-> avg(WarmPool(sc, "fcp")),  load |-> avg(WarmPool(sc, "load"))]]

\* stats[browser] once its pools are averaged (index.js:475-484)
BrowserStats(sc) ==
    [overall |-> [fcp |-> avg(AllVals(sc, "fcp")),   load |-> avg(AllVals(sc, "load"))],
     jsOn    |-> [fcp |-> avg(JsOnVals(sc, "fcp")),  load |-> avg(JsOnVals(sc, "load"))],
     jsOff   |-> [fcp |-> avg(JsOffVals(sc, "fcp")), load |-> avg(JsOffVals(sc, "load"))],
     cold    |-> [fcp |-> avg(ColdPool(sc, "fcp")),  load |-> avg(ColdPool(sc, "load"))],
     warm    |-> [fcp |-> avg(WarmPool(sc, "fcp")),  load |-> avg(WarmPool(sc, "load"))]]

RECURSIVE StatsOf(_, _)
StatsOf(stats, tree) ==
    IF tree = <<>> THEN stats
    ELSE StatsOf(Put(stats, Head(tree).k,
                     BrowserStats(JsEntries(Head(tree).k, Head(tree).v))),
                 Tail(tree))

calculateCumulativeStats(tree) ==
    LET sc == Scenarios(tree)
    IN  IF \E i \in 1..Len(sc) : ~BucketsComplete(sc[i].cacheBuckets)
        THEN Throw("TypeError")
        ELSE Return(StatsOf(<<>>, tree))

----------------------------------------------------------------------------
(* calculateDeltas (index.js:491-518)                                       *)

MinusSwapped(a, b) == Minus(b, a)

\* x - y: the operator the ten subtractions of calculateDeltas use
Difference(x, y) == Minus(x, y)

JsOffDelta(st) ==
    [fcp  |-> Difference(st.jsOff.fcp, st.jsOn.fcp),
     load |-> Difference(st.jsOff.load, st.jsOn.load)]

WarmCacheDelta(st) ==
    [fcp  |-> Difference(st.warm.fcp, st.cold.fcp),
     load |-> Difference(st.warm.load, st.cold.load)]

\* reading stats.Chrome.jsOff of a stats object without Chrome throws
calculateDeltas(stats) ==
    IF ~Has(stats, "Chrome") \/ ~Has(stats, "Firefox")
    THEN Throw("TypeError")
    ELSE LET chrome  == Get(stats, "Chrome")
             firefox == Get(stats, "Firefox")
         IN  Return(
               [jsOff     |-> [Chrome |-> JsOffDelta(chrome), Firefox |-> JsOffDelta(firefox)],
                warmCache |-> [Chrome |-> WarmCacheDelta(chrome),
                               Firefox |-> WarmCacheDelta(firefox)],
                firefoxVsChrome |->
                    [fcp  |-> Difference(firefox.overall.fcp, chrome.overall.fcp),
                     load |-> Difference(firefox.overall.load, chrome.overall.load)]])

----------------------------------------------------------------------------
(* generateHtml (index.js:140-386)                                          *)

\* x.toFixed(0): the nearest integer, the larger of two equally near, after
\* the sign of a negative x is split off
ToFixed0(x) ==
    LET m == Abs(x.num)
        n == (2 * m + x.den) \div (2 * x.den)
    IN  IF x.num < 0 THEN "-" \o ToString(n) ELSE ToString(n)

\* <td class="${d < 0 ? 'positive' : 'negative'}">${d.toFixed(0)}</td>
Cell(d) ==
    [class |-> IF NumLess(d, Num(0, 1)) THEN "positive" ELSE "negative",
     text  |-> ToFixed0(d)]

CellPair(d) == [fcp |-> Cell(d.fcp), load |-> Cell(d.load)]

\* JSON.stringify of a mean: null stays the literal null, a number its literal
JsonNumber(v) ==
    IF v = null THEN [json |-> "null"]
    ELSE [json |-> "number", num |-> v.num, den |-> v.den]

JsonAverages(m) ==
    [label              |-> m.label,
     browser_start_time |-> JsonNumber(m.browser_start_time),
     fcp                |-> JsonNumber(m.fcp),
     dom_interactive    |-> JsonNumber(m.dom_interactive),
     dom_content_loaded |-> JsonNumber(m.dom_content_loaded),
     load               |-> JsonNumber(m.load)]

JsonMetricsData(md) ==
    [cold |-> [i \in 1..Len(md.cold) |-> JsonAverages(md.cold[i])],
     warm |-> [i \in 1..Len(md.warm) |-> JsonAverages(md.warm[i])]]

Pools == {"overall", "jsOn", "jsOff", "cold", "warm"}

JsonStats(stats) ==
    [i \in 1..Len(stats) |->
        Entry(stats[i].k,
              [p \in Pools |-> [fcp  |-> JsonNumber(stats[i].v[p].fcp),
                                load |-> JsonNumber(stats[i].v[p].load)]])]

\* the report: the deltas table (index.js:210-230) and the two literals
\* embedded for the charts (index.js:237-238)
Report(metricsData, cumulativeStats, deltas) ==
    [table |-> [jsOff     |-> [Chrome  |-> CellPair(deltas.jsOff.Chrome),
                               Firefox |-> CellPair(deltas.jsOff.Firefox)],
                warmCache |-> [Chrome  |-> CellPair(deltas.warmCache.Chrome),
                               Firefox |-> CellPair(deltas.warmCache.Firefox)],
                firefoxVsChrome |-> CellPair(deltas.firefoxVsChrome)],
     metricsData     |-> JsonMetricsData(metricsData),
     cumulativeStats |-> JsonStats(cumulativeStats)]

generateHtml(tree) ==
    LET metricsData     == calculateMetricsData(tree)
        cumulativeStats == calculateCumulativeStats(tree)
        deltas          == calculateDeltas(cumulativeStats.value)
    IN  IF metricsData.threw THEN metricsData
        ELSE IF cumulativeStats.threw THEN cumulativeStats
        ELSE IF deltas.threw THEN deltas
        ELSE Return(Report(metricsData.value, cumulativeStats.value, deltas.value))

----------------------------------------------------------------------------
(* runBenchmark (index.js:31-116)                                           *)

browserName == BrowserNames[browserIdx]

jsOn == JsStates[jsIdx]

jsLabel == JsLabel(jsOn)

\* the loop over URLS as it would be if it ran from the last address to the first
LastUrlFirst == URLS[Len(URLS) + 1 - urlIdx]

url == URLS[urlIdx]

\* the object page.evaluate returns for the loaded page (index.js:70-82, 89-100)
PageMetrics(cache) ==
    [fcp                |-> OrNull(entries[cache]["fcp"]),
     dom_interactive    |-> OrNull(entries[cache]["dom_interactive"]),
     dom_content_loaded |-> OrNull(entries[cache]["dom_content_loaded"]),
     load               |-> OrNull(entries[cache]["load"])]

\* coldMetrics with browser_start_time filled in (index.js:76, 83)
ColdMetrics ==
    [browser_start_time |-> launchTime,
     fcp                |-> PageMetrics("cold").fcp,
     dom_interactive    |-> PageMetrics("cold").dom_interactive,
     dom_content_loaded |-> PageMetrics("cold").dom_content_loaded,
     load               |-> PageMetrics("cold").load]

WarmMetrics == PageMetrics("warm")

UrlLists ==
    UNION {[1..n -> Urls] : n \in 0..MaxUrls}

\* an entry a page does not expose reads as undefined
EntryValues == {undefined} \cup {Int2Num(t) : t \in PageTimes}

\* what the page reports: the paint entry is there or not, and so is the
\* navigation entry, whose three fields come together (index.js:71-80)
PerformanceEntries ==
    {e \in [CacheStates -> [TimingFields -> EntryValues]] :
        \A c \in CacheStates :
            /\ (e[c]["dom_interactive"] = undefined)
                  <=> (e[c]["dom_content_loaded"] = undefined)
            /\ (e[c]["dom_interactive"] = undefined)
                  <=> (e[c]["load"] = undefined)}

RunInit ==
    /\ URLS \in UrlLists
    /\ entries \in PerformanceEntries
    /\ results = <<>>
    /\ pc = "preseed"
    /\ browserIdx = 1
    /\ jsIdx = 1
    /\ iter = 1
    /\ urlIdx = 1
    /\ browser = 0
    /\ launchTime = null
    /\ files = <<>>
    /\ exitCode = -1
    /\ calls = <<>>

HarnessIdle ==
    /\ data = <<>>
    /\ edits = 0
    /\ ret = [fn |-> "none"]

Init == RunInit /\ HarnessIdle

\* index.js:42-53: results[browserName] = {} on entering a browser, then the
\* JS label's bucket is created and pre-seeded, and the iteration loop starts
EnterJsState ==
    /\ pc = "preseed"
    /\ LET r1 == IF jsIdx = 1 THEN Put(results, browserName, <<>>) ELSE results
           r2 == Put(r1, browserName,
                     Put(Get(r1, browserName), jsLabel, PreSeed(<<>>, URLS)))
       IN  results' = r2
    /\ iter' = 1
    /\ pc' = "launch"
    /\ UNCHANGED harnessVars
    /\ UNCHANGED calls
    /\ UNCHANGED <<URLS, entries, browserIdx, jsIdx, urlIdx, browser,
                   launchTime, files, exitCode>>

\* index.js:56-61: the launch resolves
Launch ==
    /\ pc = "launch"
    /\ \E t \in LaunchTimes : launchTime' = Int2Num(t)
    /\ browser' = browser + 1
    /\ pc' = "newContext"
    /\ UNCHANGED harnessVars
    /\ calls' = Append(calls, [op |-> "launch", browser |-> browserName])
    /\ UNCHANGED <<URLS, entries, results, browserIdx, jsIdx, iter, urlIdx,
                   files, exitCode>>

\* the launch failure as it would be if the handler saved the samples
\* collected so far before ending the process
LaunchFailsSavingResults ==
    /\ pc = "launch"
    /\ exitCode' = 1
    /\ pc' = "exited"
    /\ files' = Append(files, [name |-> OUTPUT_JSON, content |-> results])
    /\ UNCHANGED calls
    /\ UNCHANGED harnessVars
    /\ UNCHANGED <<URLS, entries, results, browserIdx, jsIdx, iter, urlIdx,
                   browser, launchTime>>

\* index.js:57-60: the launch rejects; the handler ends the process
LaunchFails ==
    /\ pc = "launch"
    /\ exitCode' = 1
    /\ pc' = "exited"
    /\ UNCHANGED harnessVars
    /\ UNCHANGED calls
    /\ UNCHANGED <<URLS, entries, results, browserIdx, jsIdx, iter, urlIdx,
                   browser, launchTime, files>>

\* index.js:63
NewContext ==
    /\ pc = "newContext"
    /\ pc' = "newPage"
    /\ UNCHANGED harnessVars
    /\ calls' = Append(calls, [op |-> "newContext", javaScriptEnabled |-> jsOn])
    /\ UNCHANGED <<URLS, entries, results, browserIdx, jsIdx, iter, urlIdx,
                   browser, launchTime, files, exitCode>>

\* index.js:64-66: the page is created and the loop over URLS starts
NewPage ==
    /\ pc = "newPage"
    /\ urlIdx' = 1
    /\ pc' = IF Len(URLS) >= 1 THEN "goto" ELSE "close"
    /\ UNCHANGED harnessVars
    /\ calls' = Append(calls, [op |-> "newPage"])
    /\ UNCHANGED <<URLS, entries, results, browserIdx, jsIdx, iter, browser,
                   launchTime, files, exitCode>>

\* index.js:69
Goto ==
    /\ pc = "goto"
    /\ pc' = "evaluateCold"
    /\ UNCHANGED harnessVars
    /\ calls' = Append(calls, [op |-> "goto", url |-> url])
    /\ UNCHANGED <<URLS, entries, results, browserIdx, jsIdx, iter, urlIdx,
                   browser, launchTime, files, exitCode>>

\* index.js:70-84
EvaluateCold ==
    /\ pc = "evaluateCold"
    /\ results' = PushSample(results, browserName, jsLabel, url, "cold", ColdMetrics)
    /\ pc' = "reload"
    /\ UNCHANGED harnessVars
    /\ calls' = Append(calls, [op |-> "evaluate"])
    /\ UNCHANGED <<URLS, entries, browserIdx, jsIdx, iter, urlIdx, browser,
                   launchTime, files, exitCode>>

\* index.js:88
Reload ==
    /\ pc = "reload"
    /\ pc' = "evaluateWarm"
    /\ UNCHANGED harnessVars
    /\ calls' = Append(calls, [op |-> "reload"])
    /\ UNCHANGED <<URLS, entries, results, browserIdx, jsIdx, iter, urlIdx,
                   browser, launchTime, files, exitCode>>

\* index.js:89-102: the warm sample is stored and the loop over URLS advances
EvaluateWarm ==
    /\ pc = "evaluateWarm"
    /\ results' = PushSample(results, browserName, jsLabel, url, "warm", WarmMetrics)
    /\ IF urlIdx < Len(URLS)
       THEN urlIdx' = urlIdx + 1 /\ pc' = "goto"
       ELSE urlIdx' = urlIdx /\ pc' = "close"
    /\ UNCHANGED harnessVars
    /\ calls' = Append(calls, [op |-> "evaluate"])
    /\ UNCHANGED <<URLS, entries, browserIdx, jsIdx, iter, browser,
                   launchTime, files, exitCode>>

\* the end of an iteration as it would be without the call of browser.close()
CloseForgotten ==
    /\ pc = "close"
    /\ browser' = browser
    /\ IF iter + 1 <= ITERATIONS
       THEN /\ iter' = iter + 1
            /\ pc' = "launch"
            /\ UNCHANGED <<browserIdx, jsIdx>>
       ELSE /\ iter' = iter
            /\ IF jsIdx < Len(JsStates)
               THEN jsIdx' = jsIdx + 1 /\ browserIdx' = browserIdx
                    /\ pc' = "preseed"
               ELSE IF browserIdx < Len(BrowserNames)
                    THEN jsIdx' = 1 /\ browserIdx' = browserIdx + 1
                         /\ pc' = "preseed"
                    ELSE jsIdx' = jsIdx /\ browserIdx' = browserIdx
                         /\ pc' = "writeJson"
    /\ UNCHANGED harnessVars
    /\ UNCHANGED calls
    /\ UNCHANGED <<URLS, entries, results, urlIdx, launchTime, files, exitCode>>

\* index.js:103-106 and the loop heads at 53, 44, 41
Close ==
    /\ pc = "close"
    /\ browser' = browser - 1
    /\ IF iter + 1 <= ITERATIONS
       THEN /\ iter' = iter + 1
            /\ pc' = "launch"
            /\ UNCHANGED <<browserIdx, jsIdx>>
       ELSE /\ iter' = iter
            /\ IF jsIdx < Len(JsStates)
               THEN jsIdx' = jsIdx + 1 /\ browserIdx' = browserIdx
                    /\ pc' = "preseed"
               ELSE IF browserIdx < Len(BrowserNames)
                    THEN jsIdx' = 1 /\ browserIdx' = browserIdx + 1
                         /\ pc' = "preseed"
                    ELSE jsIdx' = jsIdx /\ browserIdx' = browserIdx
                         /\ pc' = "writeJson"
    /\ UNCHANGED harnessVars
    /\ calls' = Append(calls, [op |-> "close"])
    /\ UNCHANGED <<URLS, entries, results, urlIdx, launchTime, files, exitCode>>

\* an awaited Playwright call other than launch rejects: runBenchmark's
\* promise rejects and index.js:120 logs the error
AwaitRejects ==
    /\ pc \in {"newContext", "newPage", "goto", "evaluateCold", "reload",
               "evaluateWarm", "close"}
    /\ pc' = "rejected"
    /\ UNCHANGED harnessVars
    /\ UNCHANGED calls
    /\ UNCHANGED <<URLS, entries, results, browserIdx, jsIdx, iter, urlIdx,
                   browser, launchTime, files, exitCode>>

\* index.js:109
WriteJson ==
    /\ pc = "writeJson"
    /\ files' = Append(files, [name |-> OUTPUT_JSON, content |-> results])
    /\ pc' = "writeHtml"
    /\ UNCHANGED harnessVars
    /\ calls' = Append(calls, [op |-> "writeFileSync", name |-> OUTPUT_JSON])
    /\ UNCHANGED <<URLS, entries, results, browserIdx, jsIdx, iter, urlIdx,
                   browser, launchTime, exitCode>>

\* index.js:113-115: a throw of generateHtml rejects runBenchmark's promise
WriteHtml ==
    /\ pc = "writeHtml"
    /\ LET chartHtml == generateHtml(results)
       IN  IF chartHtml.threw
           THEN files' = files /\ calls' = calls /\ pc' = "rejected"
           ELSE /\ files' = Append(files, [name |-> OUTPUT_HTML,
                                           content |-> chartHtml.value])
                /\ calls' = Append(calls, [op |-> "writeFileSync",
                                           name |-> OUTPUT_HTML])
                /\ pc' = "done"
    /\ UNCHANGED harnessVars
    /\ UNCHANGED <<URLS, entries, results, browserIdx, jsIdx, iter, urlIdx,
                   browser, launchTime, exitCode>>

Next ==
    \/ EnterJsState
    \/ Launch
    \/ LaunchFails
    \/ NewContext
    \/ NewPage
    \/ Goto
    \/ EvaluateCold
    \/ Reload
    \/ EvaluateWarm
    \/ Close
    \/ AwaitRejects
    \/ WriteJson
    \/ WriteHtml

Spec == Init /\ [][Next]_vars

\* runBenchmark when every awaited call resolves: the steps are taken one
\* after the other, each as soon as the call before it has returned
SweepNext ==
    \/ EnterJsState
    \/ Launch
    \/ NewContext
    \/ NewPage
    \/ Goto
    \/ EvaluateCold
    \/ Reload
    \/ EvaluateWarm
    \/ Close
    \/ WriteJson
    \/ WriteHtml

SweepSpec == Init /\ [][SweepNext]_vars /\ WF_vars(SweepNext)

----------------------------------------------------------------------------
(* A caller of the exported functions (index.js:124-134)                    *)

\* the samples the caller pushes: <<t, missing>> is a sample whose readings
\* are all t, except the missing ones, which are null
SampleShapes == {<<t, {}>> : t \in TimingValues} \cup {<<2, {"fcp"}>>}

RawSample(c, t, missing) ==
    LET timing == [f \in TimingFields |-> IF f \in missing THEN null ELSE Int2Num(t)]
    IN  IF c = "cold"
        THEN [browser_start_time |-> Int2Num(t),
              fcp                |-> timing["fcp"],
              dom_interactive    |-> timing["dom_interactive"],
              dom_content_loaded |-> timing["dom_content_loaded"],
              load               |-> timing["load"]]
        ELSE [fcp                |-> timing["fcp"],
              dom_interactive    |-> timing["dom_interactive"],
              dom_content_loaded |-> timing["dom_content_loaded"],
              load               |-> timing["load"]]

RawSamples(c) == {RawSample(c, sh[1], sh[2]) : sh \in SampleShapes}

RECURSIVE SeedJsStates(_, _, _)
SeedJsStates(jsBuckets, states, urls) ==
    IF states = <<>> THEN jsBuckets
    ELSE SeedJsStates(Put(jsBuckets, JsLabel(Head(states)), PreSeed(<<>>, urls)),
                      Tail(states), urls)

RECURSIVE SeedBrowsers(_, _, _)
\* the tree as runBenchmark pre-seeds it (index.js:41-51), before any sample
SeedBrowsers(tree, names, urls) ==
    IF names = <<>> THEN tree
    ELSE SeedBrowsers(Put(tree, Head(names), SeedJsStates(<<>>, JsStates, urls)),
                      Tail(names), urls)

\* the configurations the caller's trees are seeded for: no address repeats,
\* and the addresses come in one fixed order
HarnessUrlLists ==
    {l \in UrlLists :
        \A i, j \in 1..Len(l) : i < j => Len(l[i]) < Len(l[j])}

RunIdle ==
    /\ entries = [c \in CacheStates |-> [f \in TimingFields |-> undefined]]
    /\ results = <<>>
    /\ pc = "idle"
    /\ browserIdx = 1
    /\ jsIdx = 1
    /\ iter = 1
    /\ urlIdx = 1
    /\ browser = 0
    /\ launchTime = null
    /\ files = <<>>
    /\ exitCode = -1
    /\ calls = <<>>

\* the leaves of a seeded tree, in the order runBenchmark first reaches them
LeafPaths(urls) ==
    LET n == Len(urls)
    IN  [k \in 1..(8 * n) |->
            <<BrowserNames[((k - 1) \div (4 * n)) + 1],
              JsLabel(JsStates[(((k - 1) \div (2 * n)) % 2) + 1]),
              urls[(((k - 1) \div 2) % n) + 1],
              IF (k - 1) % 2 = 0 THEN "cold" ELSE "warm">>]

RECURSIVE Pow2(_)
Pow2(n) == IF n = 0 THEN 1 ELSE 2 * Pow2(n - 1)

RECURSIVE FillLeaves(_, _, _)
FillLeaves(tree, paths, k) ==
    IF k > Len(paths) THEN tree
    ELSE FillLeaves(PushSample(tree, paths[k][1], paths[k][2], paths[k][3], paths[k][4],
                               RawSample(paths[k][4], Pow2(k - 1), {})),
                    paths, k + 1)

\* the tree after one complete trial per leaf, every leaf with its own reading
OneTrialTree(urls) ==
    FillLeaves(SeedBrowsers(<<>>, BrowserNames, urls), LeafPaths(urls), 1)

\* the caller starts from the pre-seeded tree or, for a single address, from
\* the tree of one complete trial
InitialTrees(urls) ==
    {SeedBrowsers(<<>>, BrowserNames, urls)}
    \cup (IF Len(urls) = 1 THEN {OneTrialTree(urls)} ELSE {})

HarnessInit ==
    /\ URLS \in HarnessUrlLists
    /\ data \in InitialTrees(URLS)
    /\ edits = 0
    /\ ret = [fn |-> "none"]
    /\ RunIdle

\* delete tree[path[1]]...[path[n]], for a path the tree has
RECURSIVE DeletePath(_, _)
DeletePath(o, path) ==
    IF Len(path) = 1 THEN Delete(o, path[1])
    ELSE Put(o, path[1], DeletePath(Get(o, path[1]), Tail(path)))

RECURSIVE HasPath(_, _)
HasPath(o, path) ==
    IF path = <<>> THEN TRUE
    ELSE IF Has(o, path[1]) THEN HasPath(Get(o, path[1]), Tail(path))
    ELSE FALSE

JsLabels == {JsLabel(on) : on \in {TRUE, FALSE}}

BrowserSet == {BrowserNames[i] : i \in 1..Len(BrowserNames)}

\* the caller removes a browser, a JS label, a url or a cache-state key from
\* its tree; a removal counts as two changes
RemoveKey ==
    /\ ret.fn = "none"
    /\ edits + 2 <= MaxEdits
    /\ \E b \in BrowserSet, j \in JsLabels, u \in Urls, c \in CacheStates,
          n \in 1..4 :
          LET path == SubSeq(<<b, j, u, c>>, 1, n)
          IN  /\ HasPath(data, path)
              /\ data' = DeletePath(data, path)
    /\ edits' = edits + 2
    /\ UNCHANGED <<URLS, ret>>
    /\ UNCHANGED runVars

\* the caller adds one trial's sample to a leaf
AddSample ==
    /\ ret.fn = "none"
    /\ edits < MaxEdits
    /\ \E b \in BrowserSet, j \in JsLabels, u \in Urls, c \in CacheStates :
          /\ HasPath(data, <<b, j, u, c>>)
          /\ \E sample \in RawSamples(c) :
                data' = PushSample(data, b, j, u, c, sample)
    /\ edits' = edits + 1
    /\ UNCHANGED <<URLS, ret>>
    /\ UNCHANGED runVars

\* arrays of at most MaxEdits readings
Arrays == UNION {[1..n -> {Int2Num(t) : t \in TimingValues}] : n \in 0..MaxEdits}

CallAvg ==
    /\ ret.fn = "none"
    /\ edits = 0
    /\ \E arr \in Arrays :
          ret' = [fn |-> "avg", arg |-> arr, completion |-> Return(avg(arr))]
    /\ UNCHANGED <<URLS, data, edits>>
    /\ UNCHANGED runVars

\* o with F applied to the value of each of its entries
MapValues(o, F(_)) == [i \in 1..Len(o) |-> Entry(o[i].k, F(o[i].v))]

\* the tree with the samples that lack an fcp reading taken out of its leaves
WithoutNullFcp(tree) ==
    MapValues(tree, LAMBDA jsBuckets :
        MapValues(jsBuckets, LAMBDA sites :
            MapValues(sites, LAMBDA cacheBuckets :
                MapValues(cacheBuckets, LAMBDA samples :
                    SelectSeq(samples, LAMBDA r : NotNullish(Prop(r, "fcp")))))))

\* calculateMetricsData as it would be if it filtered the leaves in place
CallCalculateMetricsDataInPlace ==
    /\ ret.fn = "none"
    /\ ret' = [fn |-> "calculateMetricsData", completion |-> calculateMetricsData(data)]
    /\ data' = WithoutNullFcp(data)
    /\ UNCHANGED <<URLS, edits>>
    /\ UNCHANGED runVars

CallCalculateMetricsData ==
    /\ ret.fn = "none"
    /\ ret' = [fn |-> "calculateMetricsData", completion |-> calculateMetricsData(data)]
    /\ UNCHANGED <<URLS, data, edits>>
    /\ UNCHANGED runVars

CallCalculateCumulativeStats ==
    /\ ret.fn = "none"
    /\ ret' = [fn |-> "calculateCumulativeStats",
               completion |-> calculateCumulativeStats(data)]
    /\ UNCHANGED <<URLS, data, edits>>
    /\ UNCHANGED runVars

\* calculateDeltas on the statistics of the tree, as generateHtml calls it
CallCalculateDeltas ==
    /\ ret.fn = "none"
    /\ \E cumulativeStats \in {calculateCumulativeStats(data)} :
          /\ ~cumulativeStats.threw
          /\ ret' = [fn |-> "calculateDeltas", arg |-> cumulativeStats.value,
                     completion |-> calculateDeltas(cumulativeStats.value)]
    /\ UNCHANGED <<URLS, data, edits>>
    /\ UNCHANGED runVars

CallGenerateHtml ==
    /\ ret.fn = "none"
    /\ ret' = [fn |-> "generateHtml", completion |-> generateHtml(data)]
    /\ UNCHANGED <<URLS, data, edits>>
    /\ UNCHANGED runVars

\* the caller drops the value it was returned and is free to call again
DiscardResult ==
    /\ ret.fn # "none"
    /\ ret' = [fn |-> "none"]
    /\ UNCHANGED <<URLS, data, edits>>
    /\ UNCHANGED runVars

HarnessNext ==
    \/ DiscardResult
    \/ RemoveKey
    \/ AddSample
    \/ CallAvg
    \/ CallCalculateMetricsData
    \/ CallCalculateCumulativeStats
    \/ CallCalculateDeltas
    \/ CallGenerateHtml

HarnessSpec == HarnessInit /\ [][HarnessNext]_vars

----------------------------------------------------------------------------
(* Vocabulary of the properties                                             *)

Called(fn) == ret.fn = fn

Returned(fn) == ret.fn = fn /\ ~ret.completion.threw

Metrics == {"fcp", "load"}

\* the ten differences of a deltas object d computed from statistics st, each
\* with the two means the specification subtracts: delta = x - y
TenDeltas(st, d) ==
    {[name |-> <<"jsOff", b, m>>, delta |-> d.jsOff[b][m],
      x |-> Get(st, b).jsOff[m], y |-> Get(st, b).jsOn[m]] :
        b \in BrowserSet, m \in Metrics}
    \cup
    {[name |-> <<"warmCache", b, m>>, delta |-> d.warmCache[b][m],
      x |-> Get(st, b).warm[m], y |-> Get(st, b).cold[m]] :
        b \in BrowserSet, m \in Metrics}
    \cup
    {[name |-> <<"firefoxVsChrome", m>>, delta |-> d.firefoxVsChrome[m],
      x |-> Get(st, "Firefox").overall[m], y |-> Get(st, "Chrome").overall[m]] :
        m \in Metrics}

\* the tree has every key the configuration calls for
WellShaped(tree) ==
    \A b \in BrowserSet :
        /\ Has(tree, b)
        /\ \A j \in JsLabels :
              /\ Has(Get(tree, b), j)
              /\ \A i \in 1..Len(URLS) :
                    /\ Has(Get(Get(tree, b), j), URLS[i])
                    /\ BucketsComplete(Get(Get(Get(tree, b), j), URLS[i]))

----------------------------------------------------------------------------
(* C1 *)

\* C1: in calculateDeltas, a delta is undefined whenever one of the two
\* cumulative means it subtracts is undefined.
C1_UndefinedOperandGivesUndefinedDelta ==
    Returned("calculateDeltas") =>
        \A e \in TenDeltas(ret.arg, ret.completion.value) :
            (e.x = null \/ e.y = null) => ~IsNum(e.delta)

----------------------------------------------------------------------------
(* C2 *)

\* the texts toFixed(0) produces for the differences of the model's readings
NumeralTexts ==
    LET top == 2 * Pow2(8)
    IN  {ToString(n) : n \in 0..top} \cup {"-" \o ToString(n) : n \in 0..top}

\* the table cells of a report, each with the delta it shows
TableCells(st, d, html) ==
    {[cell |-> html.table.jsOff[e.name[2]][e.name[3]], of |-> e] :
        e \in {e \in TenDeltas(st, d) : e.name[1] = "jsOff"}}
    \cup
    {[cell |-> html.table.warmCache[e.name[2]][e.name[3]], of |-> e] :
        e \in {e \in TenDeltas(st, d) : e.name[1] = "warmCache"}}
    \cup
    {[cell |-> html.table.firefoxVsChrome[e.name[2]], of |-> e] :
        e \in {e \in TenDeltas(st, d) : e.name[1] = "firefoxVsChrome"}}

\* C2: generateHtml never shows an undefined value as a number: a mean without
\* data is embedded as null for the charts, and a delta with an undefined
\* operand leaves its table cell without a numeral.
C2_UndefinedNeverRenderedAsNumber ==
    Returned("generateHtml") =>
        LET st   == calculateCumulativeStats(data).value
            d    == calculateDeltas(st).value
            html == ret.completion.value
        IN  /\ \A i \in 1..Len(st) : \A p \in Pools : \A m \in Metrics :
                  st[i].v[p][m] = null =>
                      html.cumulativeStats[i].v[p][m].json = "null"
            /\ \A c \in TableCells(st, d, html) :
                  (c.of.x = null \/ c.of.y = null) => c.cell.text \notin NumeralTexts

----------------------------------------------------------------------------
(* C3 *)

\* C3: calculateMetricsData and calculateCumulativeStats fail with an error
\* on a tree that lacks an expected browser, JS label, url or cache-state key.
C3_MissingKeyIsAnError ==
    (Called("calculateMetricsData") \/ Called("calculateCumulativeStats")) =>
        (~WellShaped(data) => ret.completion.threw)

----------------------------------------------------------------------------
(* C4 *)

\* positions of the samples of a leaf that hold a reading of field f
ReadingsAt(samples, f) == {k \in 1..Len(samples) : NotNullish(Prop(samples[k], f))}

RECURSIVE ReadingSum(_, _, _)
\* the sum of the whole-millisecond readings of field f at positions ks
ReadingSum(ks, samples, f) ==
    IF ks = {} THEN 0
    ELSE LET k == CHOOSE x \in ks : TRUE
         IN  Prop(samples[k], f).num + ReadingSum(ks \ {k}, samples, f)

\* m is the arithmetic mean of the readings of field f in samples, or null
\* when there is none
IsFieldMean(m, samples, f) ==
    LET ks == ReadingsAt(samples, f)
    IN  IF ks = {} THEN m = null
        ELSE /\ IsNum(m)
             /\ m.den > 0
             /\ m.num * Cardinality(ks) = m.den * ReadingSum(ks, samples, f)

\* C4: every average calculateMetricsData returns is the arithmetic mean of
\* the non-null readings of that field in that leaf (a reading of 0 counts,
\* a null does not), and null when the leaf has no reading of the field.
C4_ScenarioAveragesAreNullFilteredMeans ==
    Returned("calculateMetricsData") =>
        LET sc == Scenarios(data)
            md == ret.completion.value
        IN  /\ Len(md.cold) = Len(sc)
            /\ Len(md.warm) = Len(sc)
            /\ \A i \in 1..Len(sc) :
                  /\ \A f \in TimingFields \cup {"browser_start_time"} :
                        IsFieldMean(md.cold[i][f], Get(sc[i].cacheBuckets, "cold"), f)
                  /\ \A f \in TimingFields :
                        IsFieldMean(md.warm[i][f], Get(sc[i].cacheBuckets, "warm"), f)

\* a cold leaf whose fcp readings are 0, null and 2 in some order has been
\* averaged to 1
C4_Witness ==
    /\ Returned("calculateMetricsData")
    /\ \E i \in 1..Len(Scenarios(data)) :
          LET cold == Get(Scenarios(data)[i].cacheBuckets, "cold")
          IN  /\ Len(cold) = 3
              /\ \E k \in 1..3 : cold[k].fcp = null
              /\ \E k \in 1..3 : cold[k].fcp = Int2Num(0)
              /\ \E k \in 1..3 : cold[k].fcp = Int2Num(2)
              /\ ret.completion.value.cold[i].fcp = Int2Num(1)

----------------------------------------------------------------------------
(* C5 *)

InPool(p, j, c) ==
    CASE p = "overall" -> TRUE
      [] p = "jsOn"    -> j = "JS_on"
      [] p = "jsOff"   -> j = "JS_off"
      [] p = "cold"    -> c = "cold"
      [] p = "warm"    -> c = "warm"

\* the readings of field f that belong to pool p: <<scenario, cache, position>>
PoolPoints(sc, p, f) ==
    UNION {UNION {{<<i, c, k>> : k \in ReadingsAt(Get(sc[i].cacheBuckets, c), f)} :
                    c \in {c \in CacheStates : InPool(p, sc[i].jsLabel, c)}} :
             i \in 1..Len(sc)}

RECURSIVE PointSum(_, _, _)
PointSum(pts, sc, f) ==
    IF pts = {} THEN 0
    ELSE LET pt == CHOOSE x \in pts : TRUE
         IN  Get(sc[pt[1]].cacheBuckets, pt[2])[pt[3]][f].num
             + PointSum(pts \ {pt}, sc, f)

IsPoolMean(m, sc, p, f) ==
    LET pts == PoolPoints(sc, p, f)
    IN  IF pts = {} THEN m = null
        ELSE /\ IsNum(m)
             /\ m.den > 0
             /\ m.num * Cardinality(pts) = m.den * PointSum(pts, sc, f)

\* C5: for every browser and pool, the fcp and load means of
\* calculateCumulativeStats are the means over all non-null readings of the
\* leaves in the pool, pooled across JS states, urls and cache states.
C5_CumulativeMeansArePooled ==
    Returned("calculateCumulativeStats") =>
        LET st == ret.completion.value
        IN  /\ Len(st) = Len(data)
            /\ \A b \in 1..Len(data) :
                  /\ st[b].k = data[b].k
                  /\ \A p \in Pools : \A f \in Metrics :
                        IsPoolMean(st[b].v[p][f], JsEntries(data[b].k, data[b].v), p, f)

\* cold leaves of two urls hold different numbers of fcp readings, and the
\* cold mean returned differs from the mean of the two leaf means
C5_Witness ==
    /\ Returned("calculateCumulativeStats")
    /\ \E b \in 1..Len(data) :
          LET sc == JsEntries(data[b].k, data[b].v)
          IN  /\ \E i, j \in 1..Len(sc) :
                    /\ sc[i].url # sc[j].url
                    /\ Len(ColdVals(sc[i], "fcp")) = 2
                    /\ Len(ColdVals(sc[j], "fcp")) = 1
              /\ ret.completion.value[b].v.cold.fcp # MeanOfLeafMeans(sc, "fcp")

----------------------------------------------------------------------------
(* C6 *)

\* d = x - y on fractions
IsDifference(d, x, y) ==
    /\ IsNum(d)
    /\ d.num * x.den * y.den = d.den * (x.num * y.den - y.num * x.den)

\* C6: calculateDeltas returns the three comparisons jsOff, warmCache and
\* firefoxVsChrome, each with an fcp and a load difference; with defined
\* means, jsOff is JS_off minus JS_on, warmCache is warm minus cold and
\* firefoxVsChrome is Firefox overall minus Chrome overall.
C6_DeltasAreTheNamedDifferences ==
    Returned("calculateDeltas") =>
        LET d == ret.completion.value
        IN  /\ DOMAIN d = {"jsOff", "warmCache", "firefoxVsChrome"}
            /\ DOMAIN d.jsOff = BrowserSet
            /\ DOMAIN d.warmCache = BrowserSet
            /\ \A b \in BrowserSet :
                  DOMAIN d.jsOff[b] = Metrics /\ DOMAIN d.warmCache[b] = Metrics
            /\ DOMAIN d.firefoxVsChrome = Metrics
            /\ \A e \in TenDeltas(ret.arg, d) :
                  (IsNum(e.x) /\ IsNum(e.y)) => IsDifference(e.delta, e.x, e.y)

\* every mean is defined and every one of the ten differences is non-zero
C6_Witness ==
    /\ Returned("calculateDeltas")
    /\ \A e \in TenDeltas(ret.arg, ret.completion.value) :
          IsNum(e.x) /\ IsNum(e.y) /\ e.delta # Num(0, 1)
    /\ \A b \in BrowserSet : IsNum(Get(ret.arg, b).overall.fcp)

----------------------------------------------------------------------------
(* C7 *)

\* C7: avg of an empty array returns null without throwing, and on a
\* well-shaped tree calculateMetricsData and calculateCumulativeStats return
\* null, without throwing, for every leaf field and pool without a reading.
C7_NoDataIsNull ==
    /\ (Called("avg") /\ ret.arg = <<>>) => ret.completion = Return(null)
    /\ (Called("calculateMetricsData") /\ WellShaped(data)) =>
          /\ ~ret.completion.threw
          /\ \A i \in 1..Len(Scenarios(data)) : \A f \in TimingFields :
                /\ ReadingsAt(Get(Scenarios(data)[i].cacheBuckets, "cold"), f) = {}
                      => ret.completion.value.cold[i][f] = null
                /\ ReadingsAt(Get(Scenarios(data)[i].cacheBuckets, "warm"), f) = {}
                      => ret.completion.value.warm[i][f] = null
    /\ (Called("calculateCumulativeStats") /\ WellShaped(data)) =>
          /\ ~ret.completion.threw
          /\ \A b \in 1..Len(data) : \A p \in Pools : \A f \in Metrics :
                PoolPoints(JsEntries(data[b].k, data[b].v), p, f) = {}
                    => ret.completion.value[b].v[p][f] = null

\* the statistics of a well-shaped tree with no url have been computed, and
\* every mean of both browsers is null
C7_Witness ==
    /\ Returned("calculateCumulativeStats")
    /\ URLS = <<>>
    /\ WellShaped(data)
    /\ Len(ret.completion.value) = 2
    /\ \A b \in 1..2 : \A p \in Pools : \A f \in Metrics :
          ret.completion.value[b].v[p][f] = null

----------------------------------------------------------------------------
(* C8 *)

Orders(n) == {q \in [1..n -> 1..n] : \A i, j \in 1..n : q[i] = q[j] => i = j}

Permuted(samples, q) == [i \in 1..Len(samples) |-> samples[q[i]]]

\* the tree with the samples of one leaf replaced
WithLeaf(tree, s, c, samples) ==
    Put(tree, s.browser,
        Put(Get(tree, s.browser), s.jsLabel,
            Put(Get(Get(tree, s.browser), s.jsLabel), s.url,
                Put(s.cacheBuckets, c, samples))))

----------------------------------------------------------------------------
(* C9 *)

\* the loops of index.js:41-106 have ended
CollectionComplete == pc \in {"writeJson", "writeHtml", "done"}

IsPrefix(s, t) == Len(s) <= Len(t) /\ SubSeq(t, 1, Len(s)) = s

\* a push leaves the samples already stored where they are
AppendsOnly ==
    \A i \in 1..Len(Scenarios(results)) :
        i <= Len(Scenarios(results')) =>
            \A c \in CacheStates :
                IsPrefix(Get(Scenarios(results)[i].cacheBuckets, c),
                         Get(Scenarios(results')[i].cacheBuckets, c))

\* the two counts of C9, as a predicate on one state
LeafLengths ==
    /\ CollectionComplete =>
          \A i \in 1..Len(Scenarios(results)) : \A c \in CacheStates :
              Len(Get(Scenarios(results)[i].cacheBuckets, c)) = ITERATIONS
    /\ \A i \in 1..Len(Scenarios(results)) :
          Len(Get(Scenarios(results)[i].cacheBuckets, "cold"))
            - Len(Get(Scenarios(results)[i].cacheBuckets, "warm")) \in {0, 1}

\* C9: once the collection loops of runBenchmark have ended, every leaf of
\* the result tree holds exactly ITERATIONS samples, for every configured URL
\* list; before that the cold and warm sequences of a url differ in length by
\* at most one, and samples are appended in trial order.
C9_EveryLeafHoldsIterationsSamples == []LeafLengths /\ [][AppendsOnly]_vars

----------------------------------------------------------------------------
(* C10 *)

\* C10: no sample stored in the result tree has all of its fields null.
C10_NoSampleIsAllNull ==
    \A i \in 1..Len(Scenarios(results)) : \A c \in CacheStates :
        LET samples == Get(Scenarios(results)[i].cacheBuckets, c)
        IN  \A k \in 1..Len(samples) :
                \E f \in DOMAIN samples[k] : NotNullish(samples[k][f])

----------------------------------------------------------------------------
(* C11 *)

\* the address without its scheme: what follows the first "://"
WithoutScheme(u) ==
    LET starts == {i \in 1..(Len(u) - 2) : SubSeq(u, i, i + 2) = <<":", "/", "/">>}
    IN  IF starts = {} THEN u
        ELSE LET i == CHOOSE x \in starts : \A y \in starts : x <= y
             IN  SubSeq(u, i + 3, Len(u))

\* the text without the slash it ends with, if it ends with one
WithoutTrailingSlash(t) ==
    IF t # <<>> /\ t[Len(t)] = "/" THEN SubSeq(t, 1, Len(t) - 1) ELSE t

\* C11: the label calculateMetricsData gives a scenario is its browser, its
\* JS state and its url with the scheme and the trailing slash stripped, for
\* every url (http:// ones and ones whose path has several slashes included),
\* and the cold and warm records of a scenario carry the same label.
C11_LabelStripsSchemeAndTrailingSlash ==
    Returned("calculateMetricsData") =>
        LET sc == Scenarios(data)
            md == ret.completion.value
        IN  \A i \in 1..Len(sc) :
                /\ md.cold[i].label
                     = <<sc[i].browser, sc[i].jsLabel,
                         WithoutTrailingSlash(WithoutScheme(sc[i].url))>>
                /\ md.warm[i].label = md.cold[i].label

----------------------------------------------------------------------------
(* C12 *)

\* what a call of fn on the tree as it is now completes with
Recomputed(fn) ==
    CASE fn = "calculateMetricsData"     -> calculateMetricsData(data)
      [] fn = "calculateCumulativeStats" -> calculateCumulativeStats(data)
      [] fn = "calculateDeltas"          ->
            calculateDeltas(calculateCumulativeStats(data).value)
      [] fn = "generateHtml"             -> generateHtml(data)

TreeFunctions ==
    {"calculateMetricsData", "calculateCumulativeStats", "calculateDeltas",
     "generateHtml"}

\* the value held is the one a second call on the same tree gives
ResultIsRecomputable ==
    ret.fn \in TreeFunctions => ret.completion = Recomputed(ret.fn)

\* a step that calls a function or drops its result leaves the tree as it
\* was, and the statistics handed to calculateDeltas are still those of the tree
CallsLeaveInputs ==
    (ret' # ret) =>
        /\ data' = data
        /\ (ret'.fn = "calculateDeltas") =>
              ret'.arg = calculateCumulativeStats(data').value

----------------------------------------------------------------------------
(* C13 *)

RECURSIVE Repeated(_, _)
\* n copies of a sequence, one after the other
Repeated(seq, n) == IF n = 0 THEN <<>> ELSE seq \o Repeated(seq, n - 1)

RECURSIVE PageLoads(_)
\* one cold load followed by one warm reload of each address, in list order
PageLoads(urls) ==
    IF urls = <<>> THEN <<>>
    ELSE <<[op |-> "goto", url |-> Head(urls)], [op |-> "evaluate"],
           [op |-> "reload"], [op |-> "evaluate"]>> \o PageLoads(Tail(urls))

\* what one browser instance is asked to do
Instance(b, js, urls) ==
    <<[op |-> "launch", browser |-> b],
      [op |-> "newContext", javaScriptEnabled |-> js],
      [op |-> "newPage"]>>
    \o PageLoads(urls)
    \o <<[op |-> "close"]>>

\* the whole sweep: Chrome before Firefox, JS on before JS off, ITERATIONS
\* instances each, then the two files
FixedSweep(urls) ==
    Repeated(Instance("Chrome", TRUE, urls), ITERATIONS)
    \o Repeated(Instance("Chrome", FALSE, urls), ITERATIONS)
    \o Repeated(Instance("Firefox", TRUE, urls), ITERATIONS)
    \o Repeated(Instance("Firefox", FALSE, urls), ITERATIONS)
    \o <<[op |-> "writeFileSync", name |-> "performance_results.json"],
         [op |-> "writeFileSync", name |-> "results_chart.html"]>>

Launches == {i \in 1..Len(calls) : calls[i].op = "launch"}

\* the calls made so far are the beginning of the fixed sweep, and a run that
\* has finished has made all of them, 2 x 2 x ITERATIONS launches among them
FollowsFixedSweep ==
    /\ IsPrefix(calls, FixedSweep(URLS))
    /\ pc = "done" =>
          /\ calls = FixedSweep(URLS)
          /\ Cardinality(Launches) = 2 * 2 * ITERATIONS
          /\ Len(files) = 2

\* a step of the run extends the calls made by one, or is the pre-seeding of a
\* JS state's bucket, which makes no call and is followed by a launch
Advances ==
    \/ Len(calls') = Len(calls) + 1
    \/ pc = "preseed" /\ pc' = "launch" /\ calls' = calls

\* a run that has not finished can take its next step (the last one, the
\* report, ends the run because generateHtml does not throw), and a run that
\* has finished takes none
StopsOnlyWhenDone ==
    IF pc = "done" THEN ~ENABLED SweepNext
    ELSE IF pc = "writeHtml" THEN ~generateHtml(results).threw
    ELSE ENABLED SweepNext

\* C13: when every browser call returns successfully, runBenchmark makes one
\* fixed sweep and halts: 2 browsers x 2 JS states x ITERATIONS instances,
\* Chrome before Firefox and JS on before JS off, each instance loading every
\* configured url cold and then warm in configured order, then the two output
\* files are written and the run ends.
C13_OneFixedSweepThenHalt ==
    /\ []FollowsFixedSweep
    /\ []StopsOnlyWhenDone
    /\ [][Advances]_vars

\* a run over two different addresses has finished
C13_Witness ==
    /\ pc = "done"
    /\ Len(URLS) = 2
    /\ URLS[1] # URLS[2]
    /\ Len(calls) = 4 * ITERATIONS * 12 + 2

----------------------------------------------------------------------------
(* C14 *)

Closes == {i \in 1..Len(calls) : calls[i].op = "close"}

\* C14: browser launches, page loads and iterations run strictly one at a
\* time: at most one browser instance is open in every reachable state, a
\* browser is closed before the next one is launched, and the warm reload of
\* a url follows that url's cold load (and the reading of its metrics)
\* directly, before the cold load of the next url.
C14_OneBrowserAndOnePageAtATime ==
    /\ browser \in {0, 1}
    /\ browser = Cardinality(Launches) - Cardinality(Closes)
    /\ \A i, k \in Launches : i < k => \E c \in Closes : i < c /\ c < k
    /\ \A i \in 1..Len(calls) :
          calls[i].op = "goto" =>
              /\ i + 1 <= Len(calls) => calls[i + 1].op = "evaluate"
              /\ i + 2 <= Len(calls) => calls[i + 2].op = "reload"

\* a second browser instance is open and is about to load its second url
C14_Witness ==
    /\ Cardinality(Launches) = 2
    /\ Cardinality(Closes) = 1
    /\ browser = 1
    /\ pc = "goto"
    /\ urlIdx = 2

----------------------------------------------------------------------------
(* C15 *)

\* runBenchmark has returned, its promise has rejected, or the process has exited
RunEnded == pc \in {"done", "rejected", "exited"}

\* C15: every browser instance runBenchmark launched is closed on every
\* execution path, the paths where creating the context or the page, a
\* navigation, a reload or the metric extraction fails included: when the run
\* has ended no instance is left open.
C15_EveryLaunchedBrowserIsClosed == RunEnded => browser = 0

----------------------------------------------------------------------------
(* C16 *)

\* every instance of the configuration matrix has been launched and closed
MatrixComplete ==
    /\ Cardinality(Launches) = 2 * 2 * ITERATIONS
    /\ Cardinality(Closes) = 2 * 2 * ITERATIONS

SomeSampleCollected ==
    \E i \in 1..Len(Scenarios(results)) :
        Get(Scenarios(results)[i].cacheBuckets, "cold") # <<>>

\* C16: files are written only after the whole matrix has been collected, the
\* raw JSON first and then the report; a failed launch ends the process with
\* status 1 and a failed page load abandons the run, in both cases with no
\* file written and the samples collected so far lost; if generating the
\* report fails after the JSON was written, the JSON stays and no HTML is
\* written.
C16_FilesOnlyAfterTheWholeMatrix ==
    /\ Len(files) <= 2
    /\ files # <<>> =>
          /\ MatrixComplete
          /\ files[1] = [name |-> "performance_results.json", content |-> results]
    /\ Len(files) = 2 <=> pc = "done"
    /\ Len(files) = 2 => files[2].name = "results_chart.html"
    /\ pc = "exited" <=> exitCode = 1
    /\ pc = "exited" => files = <<>>
    /\ (pc = "rejected" /\ ~MatrixComplete) => files = <<>>
    /\ (pc = "rejected" /\ MatrixComplete) =>
          (Len(files) <= 1 /\ \A i \in 1..Len(files) :
                                 files[i].name = "performance_results.json")

\* a page load has failed after samples were collected: the run is abandoned
\* and nothing has been written
C16_Witness ==
    /\ pc = "rejected"
    /\ SomeSampleCollected
    /\ files = <<>>
    /\ exitCode = -1

====
